---------------------------- MODULE Spec2Model ----------------------------
(***************************************************************************)
(* tend: the flake-update propagation engine (src/src/flake.rs).           *)
(*                                                                         *)
(*   compute_update_chain  - the planner: reverse index, BFS, Kahn's       *)
(*                           topological sort, materialization of steps    *)
(*   execute_update_chain  - the executor: one pass over the chain, each   *)
(*                           step a fixed sequence of external commands    *)
(*                                                                         *)
(* SpecPlan applies the planner to every dependency map of the bounded     *)
(* input space; SpecExec runs the executor over every chain of the         *)
(* bounded input space with the external commands answering freely.        *)
(* SpecCommand is the flake-update command of src/src/main.rs over a       *)
(* configuration of workspaces; SpecDaemon is the loop of                  *)
(* src/src/daemon.rs.                                                      *)
(***************************************************************************)
EXTENDS Integers, Sequences, FiniteSets, TLC

VARIABLES
    flake_deps,   \* planner input: repo -> list of the inputs it depends on
    changed,      \* planner input: the repository that was pushed
    ppc,          \* planner position: "start" | "done"
    presult,      \* what compute_update_chain returned
    psorted,      \* the local sorted of that call when it returned
    chain,        \* executor input: the list of UpdateStep
    dry_run,      \* executor input
    quiet,        \* executor input
    idx,          \* executor: i of the for loop (0-based)
    pc,           \* executor position inside the loop body
    log,          \* executor: external commands run so far, with their outcome
    out,          \* executor: lines handed to display::print_flake_step_*
    tree,         \* executor: working tree and upstream of each repository
    result,       \* what execute_update_chain returned
    run,          \* which invocation of the command over this chain this is
    workspaces,   \* command: cfg.workspaces, in configuration order
    ws_filter,    \* command: the --workspace option, "" when absent
    cws,          \* command: position in the filtered list (1-based)
    cpc,          \* command position: "load" | "loop" | "exited"
    cevents,      \* command: what was planned, reported and executed so far
    cresult,      \* command: what the match arm returned
    cycle,        \* daemon: the local cycle
    dcount,       \* daemon: workspaces.len() of the current cycle
    dws,          \* daemon: position in the for loop (1-based)
    dpc,          \* daemon position: "load" | "retry_wait" | "workspaces"
                  \*                  | "sleep" | "returned"
    devents,      \* daemon: what happened so far
    interrupted   \* daemon: the interrupt signal was received

vars == <<flake_deps, changed, ppc, presult, psorted,
          chain, dry_run, quiet, idx, pc, log, out, tree, result, run,
          workspaces, ws_filter, cws, cpc, cevents, cresult,
          cycle, dcount, dws, dpc, devents, interrupted>>

planVars == <<flake_deps, changed, ppc, presult, psorted>>
execVars == <<chain, dry_run, quiet, idx, pc, log, out, tree, result, run>>
cmdVars == <<workspaces, ws_filter, cws, cpc, cevents, cresult>>
daemonVars == <<cycle, dcount, dws, dpc, devents, interrupted>>

\* the flake-update command is not running
CommandIdle ==
    /\ workspaces = <<>>
    /\ ws_filter = ""
    /\ cws = 0
    /\ cpc = "idle"
    /\ cevents = <<>>
    /\ cresult = "none"

\* the daemon is not running
DaemonIdle ==
    /\ cycle = 0
    /\ dcount = 0
    /\ dws = 0
    /\ dpc = "idle"
    /\ devents = <<>>
    /\ interrupted = FALSE

---------------------------------------------------------------------------
(* Bounds of the input space.                                              *)

\* names that occur as repositories or as flake inputs
Names == {"A", "B", "C", "D"}

\* total number of entries in all dependency lists of a map
MaxEdges == 3

\* longest chain handed to the executor
MaxChain == 3

\* invocations of the command over the same chain, one after the other
MaxRuns == 2

\* workspaces in a configuration
MaxWorkspaces == 3

\* cycles of the daemon loop
MaxCycles == 2

---------------------------------------------------------------------------
(* Helpers on sequences and sets.                                          *)

Range(s) == {s[k] : k \in DOMAIN s}

RECURSIVE SetToSeq(_)
SetToSeq(S) ==
    IF S = {} THEN <<>>
    ELSE LET x == CHOOSE y \in S : TRUE IN <<x>> \o SetToSeq(S \ {x})

\* every order in which a hash set or hash map over S can be iterated
Perms(S) ==
    {s \in [1..Cardinality(S) -> S] :
        \A a, b \in 1..Cardinality(S) : a # b => s[a] # s[b]}

Repeat(x, n) == [k \in 1..n |-> x]

---------------------------------------------------------------------------
(* The dependency maps of the input space: every key set, every           *)
(* distribution of at most MaxEdges entries over the keys' lists           *)
(* (duplicates, self-dependencies and names that are no key included).     *)

\* the maps with key set K and at most budget entries in their lists
RECURSIVE MapsOver(_, _)
MapsOver(K, budget) ==
    IF K = {} THEN {<<>>}
    ELSE LET r == CHOOSE x \in K : TRUE IN
         UNION {{(r :> l) @@ m : l \in [1..n -> Names],
                                 m \in MapsOver(K \ {r}, budget - n)}
                : n \in 0..budget}

DepMaps == UNION {MapsOver(K, MaxEdges) : K \in SUBSET Names}

---------------------------------------------------------------------------
(* compute_update_chain                                                    *)

\* A result: kind "ok" with the steps, kind "cycle" with the nodes named in
\* the message (listed: as the message lists them, nodes: as a set), or kind
\* "panic".
NoResult == [kind |-> "none", steps |-> <<>>, nodes |-> {}, listed |-> <<>>]
Ok(steps) == [kind |-> "ok", steps |-> steps, nodes |-> {}, listed |-> <<>>]
CycleError(listed) ==
    [kind |-> "cycle", steps |-> <<>>, nodes |-> Range(listed), listed |-> listed]
Panic == [kind |-> "panic", steps |-> <<>>, nodes |-> {}, listed |-> <<>>]

\* every repo that declares a dependency taken for a dependent of d
reverse_any(fd, d) == {r \in DOMAIN fd : fd[r] # <<>>}

\* reverse.get(d): the repos whose list names d.  The code keeps a list in
\* hash-map iteration order; the BFS only tests membership of its elements.
reverse(fd, d) == {r \in DOMAIN fd : d \in Range(fd[r])}

\* the while loop over queue
RECURSIVE bfs(_, _, _)
bfs(fd, queue, aff) ==
    IF queue = <<>> THEN aff
    ELSE LET fresh == reverse(fd, Head(queue)) \ aff
         IN bfs(fd, Tail(queue) \o SetToSeq(fresh), aff \cup fresh)

affected(ch, fd) == bfs(fd, <<ch>>, {})

\* the edge from the changed repository left out of the count
EdgeCounted_affected_only(ch, aff, dep) == dep \in aff

\* the condition under which an edge dep -> repo is counted
EdgeCounted(ch, aff, dep) == dep \in aff \/ dep = ch

in_degree(ch, fd, aff) ==
    [r \in aff |->
        IF r \in DOMAIN fd
        THEN Cardinality({k \in DOMAIN fd[r] : EdgeCounted(ch, aff, fd[r][k])})
        ELSE 0]

\* forward[d], built while iterating the affected set in the order affOrder
RECURSIVE forwardList(_, _, _, _, _)
forwardList(ch, fd, aff, affOrder, d) ==
    IF affOrder = <<>> THEN <<>>
    ELSE LET repo == Head(affOrder)
             n == IF repo \in DOMAIN fd
                  THEN Cardinality({k \in DOMAIN fd[repo] :
                          fd[repo][k] = d /\ EdgeCounted(ch, aff, d)})
                  ELSE 0
         IN Repeat(repo, n) \o forwardList(ch, fd, aff, Tail(affOrder), d)

forward(ch, fd, aff, affOrder) ==
    [d \in Names |-> forwardList(ch, fd, aff, affOrder, d)]

\* every node queued at once, whatever its in-degree
initial_queue_all(deg, degOrder) == degOrder

\* the zero-in-degree nodes, in the iteration order of in_degree
initial_queue(deg, degOrder) == SelectSeq(degOrder, LAMBDA r : deg[r] = 0)

\* the for loop over the dependents of the popped repo
RECURSIVE relax(_, _, _)
relax(dependents, deg, queue) ==
    IF dependents = <<>> THEN [deg |-> deg, queue |-> queue, panic |-> FALSE]
    ELSE LET dep == Head(dependents) IN
         IF dep \notin DOMAIN deg THEN relax(Tail(dependents), deg, queue)
         ELSE IF deg[dep] = 0
              THEN [deg |-> deg, queue |-> queue, panic |-> TRUE]  \* usize underflow
              ELSE LET nd == [deg EXCEPT ![dep] = @ - 1]
                   IN relax(Tail(dependents), nd,
                            IF nd[dep] = 0 THEN Append(queue, dep) ELSE queue)

\* the while loop over topo_queue
RECURSIVE topo(_, _, _, _)
topo(queue, deg, sorted, fwd) ==
    IF queue = <<>> THEN [sorted |-> sorted, panic |-> FALSE]
    ELSE LET repo == Head(queue)
             r == relax(fwd[repo], deg, Tail(queue))
         IN IF r.panic THEN [sorted |-> Append(sorted, repo), panic |-> TRUE]
            ELSE topo(r.queue, r.deg, Append(sorted, repo), fwd)

\* the check of the sort's length weakened to one that never fires
cycle_detected_never(sorted, aff) == Len(sorted) > Cardinality(aff)

cycle_detected(sorted, aff) == Len(sorted) # Cardinality(aff)

\* the inputs of one step: the declared dependencies already updated
step_inputs(deps, updated_so_far) ==
    SelectSeq(deps, LAMBDA d : d \in updated_so_far)

\* the for loop over sorted
RECURSIVE materialize(_, _, _, _)
materialize(sorted, fd, updated_so_far, steps) ==
    IF sorted = <<>> THEN Ok(steps)
    ELSE LET repo == Head(sorted) IN
         IF repo \notin DOMAIN fd THEN Panic   \* unwrap on None
         ELSE LET inputs == step_inputs(fd[repo], updated_so_far) IN
              IF inputs # <<>>
              THEN materialize(Tail(sorted), fd, updated_so_far \cup {repo},
                               Append(steps, [repo |-> repo, inputs |-> inputs]))
              ELSE materialize(Tail(sorted), fd, updated_so_far, steps)

\* affected.difference(&sorted), printed with {:?}: the affected set is
\* iterated in its own order and the sorted nodes are left out
unsorted(affOrder, sorted) == SelectSeq(affOrder, LAMBDA r : r \notin Range(sorted))

\* the local sorted when the topological sort has ended
sorted_of(ch, fd, affOrder, degOrder) ==
    LET aff == affected(ch, fd)
        deg == in_degree(ch, fd, aff)
    IN topo(initial_queue(deg, degOrder), deg, <<>>,
            forward(ch, fd, aff, affOrder)).sorted

\* affOrder, degOrder: the iteration orders of the hash set affected and of
\* the hash map in_degree in this call
compute_update_chain(ch, fd, affOrder, degOrder) ==
    LET aff == affected(ch, fd) IN
    IF aff = {} THEN Ok(<<>>)
    ELSE LET deg == in_degree(ch, fd, aff)
             fwd == forward(ch, fd, aff, affOrder)
             t == topo(initial_queue(deg, degOrder), deg, <<>>, fwd)
         IN IF t.panic THEN Panic
            ELSE IF cycle_detected(t.sorted, aff)
                 THEN CycleError(unsorted(affOrder, t.sorted))
                 ELSE materialize(t.sorted, fd, {ch}, <<>>)

---------------------------------------------------------------------------
(* execute_update_chain: data                                              *)

\* what the call returned: Ok(()) or the error, with the operation that
\* failed and the repository the message names
NoReturn == [kind |-> "none", what |-> "", repo |-> ""]
Returned == [kind |-> "ok", what |-> "", repo |-> ""]
Bailed(what, repo) == [kind |-> "err", what |-> what, repo |-> repo]

\* A working tree and its upstream.  lock: flake.lock is as committed
\* ("same"), rewritten in the working tree ("modified") or rewritten and
\* staged ("staged"); ahead: local commits not pushed; pushed: commits of
\* this model's making that reached the upstream.
CleanTrees == [r \in Names |-> [lock |-> "same", ahead |-> 0, pushed |-> 0]]

\* the steps the chains of the input space are made of
StepPool ==
    {[repo |-> "B", inputs |-> <<"A">>],
     [repo |-> "C", inputs |-> <<"B", "A">>]}

Chains == UNION {[1..n -> StepPool] : n \in 0..MaxChain}

\* the step of the current iteration
step == chain[idx + 1]

\* one entry of log: the step, the command, its arguments, how it ended
Ran(cmd, args, res) ==
    [step |-> idx + 1, repo |-> step.repo, cmd |-> cmd, args |-> args, res |-> res]

\* one line handed to display: print_flake_step_start(step_num, total, repo,
\* inputs), print_flake_step_dry_run(), print_flake_step_no_changes(repo),
\* print_flake_step_done(repo)
Shown(ev, n, total, repo, inputs) ==
    [ev |-> ev, step |-> n, total |-> total, repo |-> repo, inputs |-> inputs]

StartLine(c, k) == Shown("start", k, Len(c), c[k].repo, c[k].inputs)
DryRunLine == Shown("dry_run", 0, 0, "", <<>>)
NoChangesLine(repo) == Shown("no_changes", 0, 0, repo, <<>>)
DoneLine(repo) == Shown("done", 0, 0, repo, <<>>)

\* the guard put before every line with the guard left out
print_always(o, line) == Append(o, line)

\* if !quiet { display::print_..(..) }
print(o, line) == IF quiet THEN o ELSE Append(o, line)

---------------------------------------------------------------------------
(* The external commands: how each may end in a given working tree, and   *)
(* what it does to the tree.  A command that cannot be spawned ends        *)
(* "nospawn"; "fail" is a non-zero exit.                                   *)

\* git status --porcelain: "clean" (exit 0, no output), "dirty" (output),
\* "failquiet" (non-zero exit, no output on stdout)
StatusOutcomes(t) ==
    IF t.lock = "same" THEN {"clean", "dirty", "failquiet", "nospawn"}
    ELSE {"dirty", "failquiet", "nospawn"}

\* nix flake update <inputs>: on success the lock file is rewritten or not
UpdateOutcomes == {"ok", "ok_rewritten", "fail", "nospawn"}

AfterUpdate(t, res) ==
    IF res = "ok_rewritten" THEN [t EXCEPT !.lock = "modified"] ELSE t

AddOutcomes == {"ok", "fail", "nospawn"}

AfterAdd(t, res) ==
    IF res = "ok" /\ t.lock = "modified" THEN [t EXCEPT !.lock = "staged"] ELSE t

\* git diff --cached --quiet: "same" (exit 0), "differs" (exit 1),
\* "error" (any other exit)
DiffOutcomes(t) ==
    {IF t.lock = "staged" THEN "differs" ELSE "same", "error", "nospawn"}

\* git commit succeeds only with something staged
CommitOutcomes(t) ==
    IF t.lock = "staged" THEN {"ok", "fail", "nospawn"} ELSE {"fail", "nospawn"}

AfterCommit(t, res) ==
    IF res = "ok" THEN [t EXCEPT !.lock = "same", !.ahead = @ + 1] ELSE t

PushOutcomes == {"ok", "fail", "nospawn"}

AfterPush(t, res) ==
    IF res = "ok" THEN [t EXCEPT !.pushed = @ + t.ahead, !.ahead = 0] ELSE t

---------------------------------------------------------------------------
(* execute_update_chain: the decisions of the loop body                    *)

\* the check of the directory left out
repo_missing_never(exists) == FALSE

\* if !repo_path.exists()
repo_missing(exists) == ~exists

\* the dry-run branch never taken
skips_never(dry) == FALSE

\* if dry_run { ...; continue; }
skips(dry) == dry

\* ensure_clean: Ok exactly when the command was spawned and printed nothing
ensure_clean(res) == res \in {"clean", "failquiet"}

\* the exit status left unchecked: only a failure to spawn is an error
succeeded_unchecked(res) == res # "nospawn"

\* output.status.success() of update, add, commit and push
succeeded(res) == res \in {"ok", "ok_rewritten"}

\* the branch for an empty staged diff never taken
nothing_staged_never(res) == FALSE

\* every exit status but 1 taken for an empty staged diff
nothing_staged_unless_one(res) == res # "differs"

\* diff.success(): nothing staged
nothing_staged(res) == res = "same"

\* the arguments after "flake update"
update_args(inputs) == inputs

---------------------------------------------------------------------------
(* execute_update_chain: the loop                                          *)

InitExec ==
    /\ flake_deps = <<>>
    /\ changed = "A"
    /\ ppc = "idle"
    /\ presult = NoResult
    /\ psorted = <<>>
    /\ chain \in Chains
    /\ dry_run \in BOOLEAN
    /\ quiet \in BOOLEAN
    /\ idx = 0
    /\ pc = "loop"
    /\ log = <<>>
    /\ out = <<>>
    /\ tree = CleanTrees
    /\ result = NoReturn
    /\ run = 1
    /\ CommandIdle
    /\ DaemonIdle

\* the inputs of the call and the planner's variables stay as they are
ExecFrame ==
    /\ UNCHANGED <<chain, dry_run, quiet, run>>
    /\ UNCHANGED planVars
    /\ UNCHANGED cmdVars
    /\ UNCHANGED daemonVars

Bail(what) ==
    /\ result' = Bailed(what, step.repo)
    /\ pc' = "returned"
    /\ UNCHANGED idx

\* continue, or the end of the loop body
NextIteration ==
    /\ idx' = idx + 1
    /\ pc' = "loop"
    /\ UNCHANGED result

Goto(label) ==
    /\ pc' = label
    /\ UNCHANGED <<idx, result>>

\* the loop is over: Ok(())
Finish ==
    /\ pc = "loop" /\ idx = Len(chain)
    /\ result' = Returned
    /\ pc' = "returned"
    /\ UNCHANGED <<idx, log, out, tree>>
    /\ ExecFrame

\* if !repo_path.exists() { bail!(..) }
CheckRepoPath ==
    /\ pc = "loop" /\ idx < Len(chain)
    /\ \E exists \in BOOLEAN :
         /\ log' = Append(log, Ran("exists", <<>>,
                                   IF exists THEN "present" ELSE "missing"))
         /\ IF repo_missing(exists) THEN Bail("missing") ELSE Goto("start")
    /\ UNCHANGED <<out, tree>>
    /\ ExecFrame

\* print_flake_step_start, then the dry-run branch
StartStep ==
    /\ pc = "start"
    /\ LET started == print(out, StartLine(chain, idx + 1)) IN
       IF skips(dry_run)
       THEN /\ out' = print(started, DryRunLine)
            /\ NextIteration
       ELSE /\ out' = started
            /\ Goto("status")
    /\ UNCHANGED <<log, tree>>
    /\ ExecFrame

\* ensure_clean(&repo_path).with_context(..)?
EnsureClean ==
    /\ pc = "status"
    /\ \E res \in StatusOutcomes(tree[step.repo]) :
         /\ log' = Append(log, Ran("status", <<>>, res))
         /\ IF ensure_clean(res) THEN Goto("update") ELSE Bail("dirty")
    /\ UNCHANGED <<out, tree>>
    /\ ExecFrame

\* nix flake update <inputs...>
FlakeUpdate ==
    /\ pc = "update"
    /\ \E res \in UpdateOutcomes :
         /\ log' = Append(log, Ran("update", update_args(step.inputs), res))
         /\ tree' = [tree EXCEPT ![step.repo] = AfterUpdate(@, res)]
         /\ IF succeeded(res) THEN Goto("add") ELSE Bail("update")
    /\ UNCHANGED out
    /\ ExecFrame

\* git add flake.lock
GitAdd ==
    /\ pc = "add"
    /\ \E res \in AddOutcomes :
         /\ log' = Append(log, Ran("add", <<"flake.lock">>, res))
         /\ tree' = [tree EXCEPT ![step.repo] = AfterAdd(@, res)]
         /\ IF succeeded(res) THEN Goto("diff") ELSE Bail("add")
    /\ UNCHANGED out
    /\ ExecFrame

\* git diff --cached --quiet
GitDiff ==
    /\ pc = "diff"
    /\ \E res \in DiffOutcomes(tree[step.repo]) :
         /\ log' = Append(log, Ran("diff", <<>>, res))
         /\ IF res = "nospawn"
            THEN Bail("diff") /\ UNCHANGED out
            ELSE IF nothing_staged(res)
                 THEN /\ out' = print(out, NoChangesLine(step.repo))
                      /\ NextIteration
                 ELSE Goto("commit") /\ UNCHANGED out
    /\ UNCHANGED tree
    /\ ExecFrame

\* git commit -m "chore: update <inputs>"
GitCommit ==
    /\ pc = "commit"
    /\ \E res \in CommitOutcomes(tree[step.repo]) :
         /\ log' = Append(log, Ran("commit", step.inputs, res))
         /\ tree' = [tree EXCEPT ![step.repo] = AfterCommit(@, res)]
         /\ IF succeeded(res) THEN Goto("push") ELSE Bail("commit")
    /\ UNCHANGED out
    /\ ExecFrame

\* git push, then print_flake_step_done
GitPush ==
    /\ pc = "push"
    /\ \E res \in PushOutcomes :
         /\ log' = Append(log, Ran("push", <<>>, res))
         /\ tree' = [tree EXCEPT ![step.repo] = AfterPush(@, res)]
         /\ IF succeeded(res)
            THEN /\ out' = print(out, DoneLine(step.repo))
                 /\ NextIteration
            ELSE Bail("push") /\ UNCHANGED out
    /\ ExecFrame

execute_update_chain ==
    \/ Finish
    \/ CheckRepoPath
    \/ StartStep
    \/ EnsureClean
    \/ FlakeUpdate
    \/ GitAdd
    \/ GitDiff
    \/ GitCommit
    \/ GitPush

SpecExec == InitExec /\ [][execute_update_chain]_vars

---------------------------------------------------------------------------
(* The command run again over the same chain: the working trees are as    *)
(* the previous invocation left them, everything else starts afresh.       *)

Rerun ==
    /\ pc = "returned"
    /\ run < MaxRuns
    /\ run' = run + 1
    /\ idx' = 0
    /\ pc' = "loop"
    /\ log' = <<>>
    /\ out' = <<>>
    /\ result' = NoReturn
    /\ UNCHANGED <<chain, dry_run, quiet, tree>>
    /\ UNCHANGED planVars
    /\ UNCHANGED cmdVars
    /\ UNCHANGED daemonVars

NextRerun ==
    \/ Finish
    \/ CheckRepoPath
    \/ StartStep
    \/ EnsureClean
    \/ FlakeUpdate
    \/ GitAdd
    \/ GitDiff
    \/ GitCommit
    \/ GitPush
    \/ Rerun

SpecRerun == InitExec /\ [][NextRerun]_vars

---------------------------------------------------------------------------
(* The planner applied to an input.                                        *)

ExecIdle ==
    /\ chain = <<>>
    /\ dry_run = FALSE
    /\ quiet = FALSE
    /\ idx = 0
    /\ pc = "idle"
    /\ log = <<>>
    /\ out = <<>>
    /\ tree = CleanTrees
    /\ result = NoReturn
    /\ run = 1

InitPlan ==
    /\ flake_deps \in DepMaps
    /\ changed \in Names
    /\ ppc = "start"
    /\ presult = NoResult
    /\ psorted = <<>>
    /\ ExecIdle
    /\ CommandIdle
    /\ DaemonIdle

Plan ==
    /\ ppc = "start"
    /\ \E affOrder \in Perms(affected(changed, flake_deps)) :
         \E degOrder \in Perms(affected(changed, flake_deps)) :
            /\ presult' = compute_update_chain(changed, flake_deps, affOrder, degOrder)
            /\ psorted' = sorted_of(changed, flake_deps, affOrder, degOrder)
    /\ ppc' = "done"
    /\ UNCHANGED <<flake_deps, changed>>
    /\ UNCHANGED execVars
    /\ UNCHANGED cmdVars
    /\ UNCHANGED daemonVars

NextPlan == Plan

SpecPlan == InitPlan /\ [][NextPlan]_vars

---------------------------------------------------------------------------
(* The flake-update command (the Commands::FlakeUpdate arm of main).       *)

WsNames == {"w1", "w2"}

\* the flake_deps a workspace of the input space declares: none, one
\* without and two with dependents of "A"
WsMaps == {<<>>,
           "B" :> <<"C">>,
           "B" :> <<"A">>,
           ("B" :> <<"A">>) @@ ("C" :> <<"B", "A">>)}

Configs ==
    UNION {[1..n -> [name : WsNames, flake_deps : WsMaps]] : n \in 0..MaxWorkspaces}

\* filter_workspaces: the positions in cfg.workspaces of the workspaces it
\* returns, in the order it returns them
filter_workspaces(wss, filter) ==
    IF filter = "" THEN [i \in 1..Len(wss) |-> i]
    ELSE SelectSeq([i \in 1..Len(wss) |-> i], LAMBDA i : wss[i].name = filter)

\* one thing the command did for the workspace at position ws
Did(ws, ev, res) == [ws |-> ws, ev |-> ev, res |-> res]

\* an error that is dropped and not returned
is_err_never(kind) == FALSE

\* the ? operator: the error is returned from main
is_err(kind) == kind # "ok"

InitCommand ==
    /\ workspaces \in Configs
    /\ ws_filter \in {""} \cup WsNames
    /\ cws = 0
    /\ cpc = "load"
    /\ cevents = <<>>
    /\ cresult = "none"
    /\ flake_deps = <<>>
    /\ changed = "A"
    /\ ppc = "idle"
    /\ presult = NoResult
    /\ psorted = <<>>
    /\ chain = <<>>
    /\ dry_run \in BOOLEAN
    /\ quiet \in BOOLEAN
    /\ idx = 0
    /\ pc = "idle"
    /\ log = <<>>
    /\ out = <<>>
    /\ tree = CleanTrees
    /\ result = NoReturn
    /\ run = 1
    /\ DaemonIdle

CommandFrame ==
    /\ UNCHANGED <<workspaces, ws_filter>>
    /\ UNCHANGED planVars
    /\ UNCHANGED execVars
    /\ UNCHANGED daemonVars

\* return Err(..) out of the arm
Exit(err) ==
    /\ cresult' = err
    /\ cpc' = "exited"
    /\ UNCHANGED cws

\* continue, or the end of the loop body
NextWorkspace ==
    /\ cws' = cws + 1
    /\ UNCHANGED <<cpc, cresult>>

\* let cfg = load_config(..)?
LoadConfig ==
    /\ cpc = "load"
    /\ \E loaded \in {"ok", "config"} :
         IF is_err(loaded) THEN Exit(loaded)
         ELSE cws' = 1 /\ cpc' = "loop" /\ UNCHANGED cresult
    /\ UNCHANGED cevents
    /\ CommandFrame

\* one iteration of the for loop over the filtered workspaces
HandleWorkspace ==
    /\ cpc = "loop"
    /\ cws <= Len(filter_workspaces(workspaces, ws_filter))
    /\ LET w == filter_workspaces(workspaces, ws_filter)[cws]
           fd == workspaces[w].flake_deps
       IN IF fd = <<>>
          THEN NextWorkspace /\ UNCHANGED cevents
          ELSE \E affOrder \in Perms(affected(changed, fd)) :
               \E degOrder \in Perms(affected(changed, fd)) :
               LET planned == compute_update_chain(changed, fd, affOrder, degOrder)
                   tried == Append(cevents, Did(w, "plan", planned.kind))
               IN IF is_err(planned.kind)
                  THEN cevents' = tried /\ Exit(planned.kind)
                  ELSE IF planned.steps = <<>>
                       THEN /\ cevents' = print(tried, Did(w, "no_dependents", ""))
                            /\ NextWorkspace
                       ELSE \E ex \in {"ok", "exec"} :
                            LET ran == Append(print(tried, Did(w, "header", "")),
                                              Did(w, "execute", ex))
                            IN IF is_err(ex)
                               THEN cevents' = ran /\ Exit(ex)
                               ELSE /\ cevents' = print(ran, Did(w, "complete", ""))
                                    /\ NextWorkspace
    /\ CommandFrame

\* the loop is over: the arm is left and main returns Ok(())
CommandDone ==
    /\ cpc = "loop"
    /\ cws > Len(filter_workspaces(workspaces, ws_filter))
    /\ cresult' = "ok"
    /\ cpc' = "exited"
    /\ UNCHANGED <<cws, cevents>>
    /\ CommandFrame

NextCommand ==
    \/ LoadConfig
    \/ HandleWorkspace
    \/ CommandDone

SpecCommand == InitCommand /\ [][NextCommand]_vars

---------------------------------------------------------------------------
(* The daemon loop (daemon::run).                                          *)

\* one thing that happened in cycle c; for a workspace, ws is its position
\* in the list of that cycle and of the length of that list
Happened(c, ev, ws, of, res) ==
    [cycle |-> c, ev |-> ev, ws |-> ws, of |-> of, res |-> res]

\* run_workspace_cycle: Ok(()) or the error of the call that failed
\* (resolve_repos, sync_repos, fetch_repos)
run_workspace_cycle == {"ok", "err"}

\* tokio::select!: the arm that completed first
select == {"elapsed", "ctrl_c"}

\* an error of a workspace's cycle ending the loop
after_workspace_fatal(res) == IF res = "ok" THEN "workspaces" ELSE "returned"

\* match run_workspace_cycle(..) { Ok(()) => {} Err(e) => print_daemon_error }:
\* where the loop goes on afterwards
after_workspace(res) == "workspaces"

InitDaemon ==
    /\ cycle = 0
    /\ dcount = 0
    /\ dws = 0
    /\ dpc = "load"
    /\ devents = <<>>
    /\ interrupted = FALSE
    /\ flake_deps = <<>>
    /\ changed = "A"
    /\ ppc = "idle"
    /\ presult = NoResult
    /\ psorted = <<>>
    /\ chain = <<>>
    /\ dry_run = FALSE
    /\ quiet \in BOOLEAN
    /\ idx = 0
    /\ pc = "idle"
    /\ log = <<>>
    /\ out = <<>>
    /\ tree = CleanTrees
    /\ result = NoReturn
    /\ run = 1
    /\ CommandIdle

DaemonFrame ==
    /\ UNCHANGED planVars
    /\ UNCHANGED execVars
    /\ UNCHANGED cmdVars

\* the top of the loop: cycle += 1, load_config, filter_workspaces,
\* print_daemon_cycle_start
DaemonLoad ==
    /\ dpc = "load"
    /\ cycle < MaxCycles
    /\ cycle' = cycle + 1
    /\ \E loaded \in {"ok", "config"} :
         IF loaded = "ok"
         THEN \E n \in 0..MaxWorkspaces :
                /\ dcount' = n
                /\ dws' = 1
                /\ dpc' = "workspaces"
                /\ devents' = print(Append(devents,
                                  Happened(cycle', "loaded", 0, n, "ok")),
                                  Happened(cycle', "cycle_start", 0, n, ""))
         ELSE /\ devents' = Append(devents,
                                Happened(cycle', "load_failed", 0, 0, loaded))
              /\ dpc' = "retry_wait"
              /\ UNCHANGED <<dcount, dws>>
    /\ UNCHANGED interrupted
    /\ DaemonFrame

\* the select! after a failed load: sleep and continue, or break
DaemonRetryWait ==
    /\ dpc = "retry_wait"
    /\ \E woke \in select :
         /\ devents' = Append(devents, Happened(cycle, woke, 0, 0, ""))
         /\ IF woke = "ctrl_c"
            THEN interrupted' = TRUE /\ dpc' = "returned"
            ELSE dpc' = "load" /\ UNCHANGED interrupted
    /\ UNCHANGED <<cycle, dcount, dws>>
    /\ DaemonFrame

\* one iteration of the for loop over the workspaces
DaemonWorkspace ==
    /\ dpc = "workspaces"
    /\ dws <= dcount
    /\ \E res \in run_workspace_cycle :
         /\ devents' =
               LET ran == Append(devents,
                                 Happened(cycle, "workspace", dws, dcount, res))
               IN IF res = "ok" THEN ran
                  ELSE Append(ran, Happened(cycle, "error", dws, dcount, res))
         /\ dpc' = after_workspace(res)
    /\ dws' = dws + 1
    /\ UNCHANGED <<cycle, dcount, interrupted>>
    /\ DaemonFrame

\* the for loop is over: print_daemon_cycle_done, print_daemon_sleeping
DaemonCycleDone ==
    /\ dpc = "workspaces"
    /\ dws > dcount
    /\ devents' = print(print(devents,
                              Happened(cycle, "cycle_done", 0, dcount, "")),
                        Happened(cycle, "sleeping", 0, dcount, ""))
    /\ dpc' = "sleep"
    /\ UNCHANGED <<cycle, dcount, dws, interrupted>>
    /\ DaemonFrame

\* the select! at the end of the cycle: sleep, or break and Ok(())
DaemonSleep ==
    /\ dpc = "sleep"
    /\ \E woke \in select :
         /\ devents' = Append(devents, Happened(cycle, woke, 0, 0, ""))
         /\ IF woke = "ctrl_c"
            THEN interrupted' = TRUE /\ dpc' = "returned"
            ELSE dpc' = "load" /\ UNCHANGED interrupted
    /\ UNCHANGED <<cycle, dcount, dws>>
    /\ DaemonFrame

NextDaemon ==
    \/ DaemonLoad
    \/ DaemonRetryWait
    \/ DaemonWorkspace
    \/ DaemonCycleDone
    \/ DaemonSleep

SpecDaemon == InitDaemon /\ [][NextDaemon]_vars

---------------------------------------------------------------------------
(* Graph notions the planner's contract is stated in, defined on the       *)
(* dependency map itself and not through the planner's own computation.    *)

\* the repositories of S that declare a member of X as a dependency
Dependents(fd, S, X) ==
    {r \in S \cap DOMAIN fd : \E d \in X : d \in Range(fd[r])}

RECURSIVE Closure(_, _, _)
Closure(fd, S, X) ==
    LET Y == X \cup Dependents(fd, S, X)
    IN IF Y = X THEN X ELSE Closure(fd, S, Y)

\* the dependency edges with both ends in S contain a cycle
HasCycle(fd, S) ==
    \E n \in S : n \in Closure(fd, S, Dependents(fd, S, {n}))

Acyclic(fd) == ~HasCycle(fd, Names)

\* the repositories that depend on ch, directly or transitively
TransitiveDependents(ch, fd) == Closure(fd, Names, Dependents(fd, Names, {ch}))

\* every input of every step is ch or the repository of an earlier step
TopologicalChain(steps, ch) ==
    \A k \in DOMAIN steps : \A d \in Range(steps[k].inputs) :
        d = ch \/ \E j \in 1..(k - 1) : steps[j].repo = d

PositionOf(steps, r) == CHOOSE k \in DOMAIN steps : steps[k].repo = r

---------------------------------------------------------------------------
(* Claims about compute_update_chain, under SpecPlan.                      *)

\* C1: for every acyclic dependency map and every changed repository the
\* planner returns a chain, not an error, and in that chain every input of
\* every step is the changed repository or the repository of an earlier step.
C1_AcyclicGivesTopologicalChain ==
    (ppc = "done" /\ Acyclic(flake_deps)) =>
        /\ presult.kind = "ok"
        /\ TopologicalChain(presult.steps, changed)

\* C4: when the repositories that transitively depend on changed contain a
\* dependency cycle, the planner returns the cycle error and no chain.
C4_ReachableCycleIsRejected ==
    (ppc = "done"
        /\ HasCycle(flake_deps, TransitiveDependents(changed, flake_deps))) =>
        /\ presult.kind = "cycle"
        /\ presult.steps = <<>>

\* a cycle B <-> C downstream of a changed repository outside the cycle
C4_Witness ==
    /\ ppc = "done"
    /\ changed \notin TransitiveDependents(changed, flake_deps)
    /\ HasCycle(flake_deps, TransitiveDependents(changed, flake_deps))
    /\ presult.kind = "cycle"

\* C5: the cycle error is returned only when the dependency map restricted
\* to the affected set contains a cycle, and the nodes it names are the
\* affected set minus the nodes the topological sort emitted.
C5_CycleErrorOnlyForCycles ==
    (ppc = "done" /\ presult.kind = "cycle") =>
        /\ HasCycle(flake_deps, TransitiveDependents(changed, flake_deps))
        /\ presult.nodes = TransitiveDependents(changed, flake_deps) \ Range(psorted)

C6Map == [r \in Names |->
            CASE r = "A" -> <<>>
              [] r = "B" -> <<"A">>
              [] r = "C" -> <<"B">>
              [] r = "D" -> <<"A">>]

\* C6: for {A: [], B: [A], C: [B], D: [A]} and changed = A the planner
\* returns exactly the steps (B, [A]), (D, [A]), (C, [B]), C after B.
C6_ExampleChain ==
    (ppc = "done" /\ flake_deps = C6Map /\ changed = "A") =>
        /\ presult.kind = "ok"
        /\ Len(presult.steps) = 3
        /\ Range(presult.steps) =
              {[repo |-> "B", inputs |-> <<"A">>],
               [repo |-> "D", inputs |-> <<"A">>],
               [repo |-> "C", inputs |-> <<"B">>]}
        /\ PositionOf(presult.steps, "B") < PositionOf(presult.steps, "C")

C10Map == [r \in {"A", "B", "C"} |->
            CASE r = "A" -> <<>>
              [] r = "B" -> <<"A">>
              [] r = "C" -> <<"B", "A">>]

\* C10: for {A: [], B: [A], C: [B, A]} and changed = A, with B's step ending
\* unchanged, the update command run for C is given A and is not given B.
\* The executor passes a step's planned inputs to the update command as they
\* are, and whether B ends unchanged is known only while executing, so the
\* names given to C's update are the inputs of C's step in the plan.
C10_UnchangedInputNotListed ==
    (ppc = "done" /\ flake_deps = C10Map /\ changed = "A") =>
        /\ presult.kind = "ok"
        /\ \E k \in DOMAIN presult.steps :
              /\ presult.steps[k].repo = "C"
              /\ "A" \in Range(presult.steps[k].inputs)
              /\ "B" \notin Range(presult.steps[k].inputs)

\* the result of the same call had both hash collections been iterated in
\* one fixed order
ReferenceResult ==
    compute_update_chain(changed, flake_deps,
                         SetToSeq(affected(changed, flake_deps)),
                         SetToSeq(affected(changed, flake_deps)))

\* a result without the order in which an error message lists its nodes
Outcome(r) == [r EXCEPT !.listed = <<>>]

\* C12 as stated: the result of the planner is the same whatever order the
\* hash collections are iterated in.
C12_SameResultWhateverOrder ==
    ppc = "done" => presult = ReferenceResult

\* C12 amended: whatever order the hash collections are iterated in, the
\* planner yields the same steps in the same order or the cycle error naming
\* the same set of repositories; only the order in which the error message
\* lists them follows the iteration order.
C12_SameOutcomeWhateverOrder ==
    ppc = "done" => Outcome(presult) = Outcome(ReferenceResult)

\* a call that iterated in another order than the reference and lists the
\* same nodes in another order
C12_Witness ==
    /\ ppc = "done"
    /\ presult.listed # ReferenceResult.listed
    /\ presult.nodes = ReferenceResult.nodes
    /\ Cardinality(presult.nodes) >= 2

---------------------------------------------------------------------------
(* Notions the executor's contract is stated in, read off the log.         *)

\* an external command, as opposed to the probe of the directory
IsCommand(e) == e.cmd # "exists"

\* the entry is a failure of its step: missing directory, dirty tree, or a
\* command that failed or could not be run
Failure(e) ==
    \/ e.cmd = "exists" /\ e.res = "missing"
    \/ e.cmd = "status" /\ e.res \in {"dirty", "nospawn"}
    \/ e.cmd \in {"update", "add", "commit", "push"} /\ e.res \in {"fail", "nospawn"}
    \/ e.cmd = "diff" /\ e.res = "nospawn"

\* the operation the error of a failing entry names
ErrorOf(e) ==
    Bailed(CASE e.cmd = "exists" -> "missing"
             [] e.cmd = "status" -> "dirty"
             [] OTHER -> e.cmd,
           chain[e.step].repo)

\* before log entry p, step i was committed and then pushed
AppliedBefore(i, p) ==
    \E b \in 1..(p - 1) :
        /\ log[b].cmd = "push" /\ log[b].step = i /\ log[b].res = "ok"
        /\ \E a \in 1..(b - 1) :
              log[a].cmd = "commit" /\ log[a].step = i /\ log[a].res = "ok"

\* before log entry p, the staged diff of step i was found empty
UnchangedBefore(i, p) ==
    \E a \in 1..(p - 1) :
        log[a].cmd = "diff" /\ log[a].step = i /\ log[a].res = "same"

\* what a dry run over the chain c reports: each step announced, then skipped
RECURSIVE DryRunReport(_, _)
DryRunReport(c, k) ==
    IF k > Len(c) THEN <<>>
    ELSE <<StartLine(c, k), DryRunLine>> \o DryRunReport(c, k + 1)

---------------------------------------------------------------------------
(* Claims about execute_update_chain, under SpecExec.                      *)

\* C2: without dry-run, a failing step (missing directory, dirty tree, or a
\* failing update, add, commit or push) is the last thing the call does:
\* nothing is run after it, for its own or any later step, and the call has
\* returned the error of that step.
C2_FailFast ==
    ~dry_run =>
        \A p \in DOMAIN log : Failure(log[p]) =>
            /\ p = Len(log)
            /\ pc = "returned"
            /\ result = ErrorOf(log[p])

\* a three-step chain whose second step fails in its update
C2_Witness ==
    /\ ~dry_run /\ Len(chain) = 3 /\ pc = "returned"
    /\ \E p \in DOMAIN log :
          log[p].step = 2 /\ log[p].cmd = "update" /\ log[p].res = "fail"
    /\ result.kind = "err"

\* C3: without dry-run, the update of a step is run only when every earlier
\* step has ended applied (committed, then pushed) or unchanged (staged diff
\* empty), and the commands are run in chain order, one step at a time.
C3_StepsInOrderAfterLanding ==
    ~dry_run =>
        /\ \A p \in DOMAIN log : log[p].cmd = "update" =>
              \A i \in 1..(log[p].step - 1) :
                  AppliedBefore(i, p) \/ UnchangedBefore(i, p)
        /\ \A p \in 1..(Len(log) - 1) : log[p].step <= log[p + 1].step

\* the third update runs after an applied first and an unchanged second step
C3_Witness ==
    /\ ~dry_run
    /\ \E p \in DOMAIN log :
          /\ log[p].cmd = "update" /\ log[p].step = 3
          /\ AppliedBefore(1, p) /\ ~UnchangedBefore(1, p)
          /\ UnchangedBefore(2, p) /\ ~AppliedBefore(2, p)

\* C8: with dry_run set no external command is run for any step and no
\* working tree is changed.
C8_DryRunTouchesNothing ==
    dry_run =>
        /\ \A p \in DOMAIN log : ~IsCommand(log[p])
        /\ tree = CleanTrees

\* a dry run that went through a whole three-step chain
C8_Witness ==
    /\ dry_run /\ Len(chain) = 3 /\ pc = "returned"
    /\ Len(log) = 3

\* C9 as stated: with dry_run set the call reports every step of the chain
\* as skipped, one report per step in chain order, and returns success.
C9_DryRunReportsAllSkipped ==
    (dry_run /\ pc = "returned") =>
        /\ result = Returned
        /\ out = DryRunReport(chain, 1)

\* C9 amended: with dry_run set and the directory of every step present, the
\* call returns success and, unless quiet is set, reports every step of the
\* chain as skipped, one report per step in chain order; with quiet set it
\* reports nothing.
C9_DryRunReportsAllSkippedIfPresent ==
    (dry_run /\ pc = "returned" /\ \A p \in DOMAIN log : log[p].res # "missing") =>
        /\ result = Returned
        /\ out = IF quiet THEN <<>> ELSE DryRunReport(chain, 1)

\* a dry run, not quiet, that reported the three steps of its chain
C9_Witness ==
    /\ dry_run /\ ~quiet /\ pc = "returned"
    /\ Len(chain) = 3 /\ Len(out) = 6
    /\ result = Returned

---------------------------------------------------------------------------
(* Claims about the command run again over the same chain, under          *)
(* SpecRerun.                                                              *)

\* the repository's flake.lock differs from the committed one
HasUncommittedChanges(t) == t.lock # "same"

\* C11: a step left committed but not pushed is recovered by the next run:
\* when a later step's update has run in that run, no earlier step's
\* repository still holds a commit that was not pushed.
C11_UnpushedCommitRecovered ==
    (run > 1 /\ pc = "add") =>
        \A i \in 1..idx : tree[chain[i].repo].ahead = 0

\* C15: a step whose working tree has uncommitted changes fails with the
\* dirty-tree error naming the repository before the update command is run,
\* and nothing more is run in it.
C15_DirtyTreeStopsTheStep ==
    /\ pc = "update" => ~HasUncommittedChanges(tree[step.repo])
    /\ \A p \in DOMAIN log :
          (log[p].cmd = "status" /\ log[p].res = "dirty") =>
              /\ p = Len(log)
              /\ pc = "returned"
              /\ result = Bailed("dirty", chain[log[p].step].repo)

---------------------------------------------------------------------------
(* Claims about the inside of one step, under SpecExec.                    *)

\* C16: a step whose directory is missing fails there with the
\* missing-repository error: the failed check is the last thing the call
\* does, no command is run for that step and no line is printed for it,
\* whether dry_run is set or not.
C16_MissingRepoFailsFirst ==
    \A p \in DOMAIN log :
        (log[p].cmd = "exists" /\ log[p].res = "missing") =>
            /\ p = Len(log)
            /\ pc = "returned"
            /\ result = Bailed("missing", chain[log[p].step].repo)
            /\ \A q \in DOMAIN log :
                  log[q].step = log[p].step => ~IsCommand(log[q])
            /\ \A o \in DOMAIN out :
                  out[o].ev = "start" => out[o].step < log[p].step
            /\ Len(out) <= 2 * (log[p].step - 1)

\* a dry run that reported its first step and found the second one missing
C16_Witness ==
    /\ dry_run /\ ~quiet /\ pc = "returned"
    /\ Len(log) = 2
    /\ log[2].cmd = "exists" /\ log[2].res = "missing"
    /\ out = <<StartLine(chain, 1), DryRunLine>>
    /\ result = Bailed("missing", chain[2].repo)

\* C17: a step whose staged diff is found empty (git diff --cached --quiet
\* exits 0) ends as unchanged: no commit and no push is run for it, it is no
\* failure, and the loop goes on with the next step, or returns Ok when it
\* was the last.
C17_EmptyDiffEndsStepUnchanged ==
    \A p \in DOMAIN log :
        (log[p].cmd = "diff" /\ log[p].res = "same") =>
            /\ \A q \in DOMAIN log :
                  log[q].step = log[p].step => log[q].cmd \notin {"commit", "push"}
            /\ ~(result.kind = "err" /\ Len(log) = p)
            /\ IF p < Len(log)
               THEN log[p + 1].step = log[p].step + 1
               ELSE \/ pc = "loop" /\ idx = log[p].step /\ result = NoReturn
                    \/ pc = "returned" /\ result = Returned
                                       /\ log[p].step = Len(chain)

\* the first step ended unchanged and the update of the second one was run
C17_Witness ==
    /\ ~dry_run /\ ~quiet
    /\ \E p \in DOMAIN log :
          /\ log[p].cmd = "diff" /\ log[p].res = "same" /\ log[p].step = 1
          /\ \E q \in (p + 1)..Len(log) :
                log[q].cmd = "update" /\ log[q].step = 2
    /\ out[2] = NoChangesLine(chain[1].repo)

\* the place of a sub-operation in its step
Rank(cmd) ==
    CASE cmd = "exists" -> 0
      [] cmd = "status" -> 1
      [] cmd = "update" -> 2
      [] cmd = "add"    -> 3
      [] cmd = "diff"   -> 4
      [] cmd = "commit" -> 5
      [] cmd = "push"   -> 6

\* the sub-operation did what it is for: the directory is there, git status
\* exited 0 and printed nothing, git diff exited 0 or 1, any other command
\* exited 0
Succeeded(e) ==
    CASE e.cmd = "exists" -> e.res = "present"
      [] e.cmd = "status" -> e.res = "clean"
      [] e.cmd = "diff"   -> e.res \in {"same", "differs"}
      [] OTHER            -> e.res \in {"ok", "ok_rewritten"}

\* the lines of the given kind printed so far
LinesOf(ev) == SelectSeq(out, LAMBDA l : l.ev = ev)

\* the pushes that succeeded so far
PushesDone == SelectSeq(log, LAMBDA e : e.cmd = "push" /\ e.res = "ok")

\* C18: within a step that is not skipped the sub-operations are run in the
\* order clean check, update, add, staged-diff check, commit, push, each
\* right after the previous one and only when that one succeeded; a step is
\* reported done only after its push succeeded.
C18_SubOperationsInOrderEachAfterSuccess ==
    /\ \A p \in DOMAIN log :
          IF p = 1 \/ log[p].step # log[IF p = 1 THEN 1 ELSE p - 1].step
          THEN log[p].cmd = "exists"
          ELSE /\ Rank(log[p].cmd) = Rank(log[p - 1].cmd) + 1
               /\ Succeeded(log[p - 1])
    /\ Len(LinesOf("done")) <= Len(PushesDone)
    /\ \A k \in DOMAIN LinesOf("done") :
          LinesOf("done")[k].repo = PushesDone[k].repo

---------------------------------------------------------------------------
(* Further claims about compute_update_chain, under SpecPlan.              *)

\* C21: when no repository depends on changed, directly or transitively,
\* the planner returns the empty chain and no error, whatever else the map
\* holds.
C21_NoDependentsGivesEmptyChain ==
    (ppc = "done" /\ TransitiveDependents(changed, flake_deps) = {}) =>
        presult = Ok(<<>>)

\* changed is not in the map, nothing depends on it, and the map has a cycle
C21_Witness ==
    /\ ppc = "done"
    /\ changed \notin DOMAIN flake_deps
    /\ TransitiveDependents(changed, flake_deps) = {}
    /\ HasCycle(flake_deps, Names)
    /\ presult = Ok(<<>>)

\* C27: the planner never panics: whatever the map and the changed
\* repository, the call returns a chain or the cycle error, every repository
\* the sort emitted is a key of the map, and no in-degree is decremented
\* below zero (relax reports that as a panic).
C27_NeverPanics ==
    ppc = "done" =>
        /\ presult.kind \in {"ok", "cycle"}
        /\ Range(psorted) \subseteq DOMAIN flake_deps

\* a call that got past the empty-chain return, for a changed repository
\* that is no key of the map and a dependent that names it twice
C27_Witness ==
    /\ ppc = "done"
    /\ changed \notin DOMAIN flake_deps
    /\ \E r \in DOMAIN flake_deps :
          Cardinality({k \in DOMAIN flake_deps[r] : flake_deps[r][k] = changed}) >= 2
    /\ Cardinality(TransitiveDependents(changed, flake_deps)) >= 2
    /\ presult.kind = "cycle"

---------------------------------------------------------------------------
(* Claims about the flake-update command, under SpecCommand.               *)

\* the entry is an error of planning or of execution
CommandFailure(e) == e.ev \in {"plan", "execute"} /\ e.res # "ok"

\* C25: the command takes the workspaces one after another in the order of
\* the configuration, leaving none out, and the first planning or execution
\* error ends it: that error is returned and nothing is planned, reported
\* or executed after it.
C25_WorkspacesInOrderFirstErrorEnds ==
    /\ \A p \in DOMAIN cevents : \A q \in DOMAIN cevents :
          p < q => /\ cevents[p].ws <= cevents[q].ws
                   /\ (cevents[p].ev = "plan" /\ cevents[q].ev = "plan")
                          => cevents[p].ws < cevents[q].ws
    /\ \A w \in DOMAIN workspaces :
          ((\E k \in 1..(cws - 1) : filter_workspaces(workspaces, ws_filter)[k] = w)
              /\ workspaces[w].flake_deps # <<>>) =>
                  \E p \in DOMAIN cevents :
                      cevents[p].ev = "plan" /\ cevents[p].ws = w
    /\ \A p \in DOMAIN cevents : CommandFailure(cevents[p]) =>
          /\ p = Len(cevents)
          /\ cpc = "exited"
          /\ cresult = cevents[p].res

\* three workspaces with dependencies: the first is planned, the planning
\* of the second fails, the third is never looked at
C25_Witness ==
    /\ Len(workspaces) = 3 /\ ws_filter = ""
    /\ \A w \in 1..3 : workspaces[w].flake_deps # <<>>
    /\ cpc = "exited" /\ cresult = "cycle"
    /\ \E p \in DOMAIN cevents :
          /\ cevents[p] = Did(2, "plan", "cycle")
          /\ \E q \in 1..(p - 1) : cevents[q] = Did(1, "plan", "ok")
    /\ \A p \in DOMAIN cevents : cevents[p].ws # 3

---------------------------------------------------------------------------
(* Claims about the daemon loop, under SpecDaemon.                         *)

\* the workspaces processed in cycle c up to now
ProcessedIn(c) ==
    {devents[p].ws : p \in {q \in DOMAIN devents :
                              devents[q].ev = "workspace" /\ devents[q].cycle = c}}

---------------------------------------------------------------------------
(* Further claims about execute_update_chain.                              *)

\* C22: the update of a step is run only right after a git status of that
\* step that exited 0 and printed nothing; a git status that exits with a
\* failure makes the step fail, also when it printed nothing.
C22_UpdateOnlyAfterSuccessfulStatus ==
    /\ \A p \in DOMAIN log : log[p].cmd = "update" =>
          /\ p > 1
          /\ log[IF p > 1 THEN p - 1 ELSE 1].cmd = "status"
          /\ log[IF p > 1 THEN p - 1 ELSE 1].step = log[p].step
          /\ log[IF p > 1 THEN p - 1 ELSE 1].res = "clean"
    /\ \A p \in DOMAIN log :
          (log[p].cmd = "status" /\ log[p].res = "failquiet") =>
              /\ p = Len(log)
              /\ pc = "returned"
              /\ result.kind = "err"
              /\ result.repo = chain[log[p].step].repo

\* C23: when the call has returned an error no working tree holds a
\* rewritten or staged flake.lock (every tree was clean when the first run
\* began), and so a run that follows a failed one never finds a tree dirty.
C23_FailedRunLeavesTreesClean ==
    /\ (pc = "returned" /\ result.kind = "err") =>
          \A r \in Names : ~HasUncommittedChanges(tree[r])
    /\ run > 1 =>
          \A p \in DOMAIN log : ~(log[p].cmd = "status" /\ log[p].res = "dirty")

====
